---- MODULE Spec2Model ----
(***************************************************************************)
(* Chirpy: the authentication core (internal/auth/auth.go), the login flow *)
(* that uses it and the hit counter with its admin routes (main.go).       *)
(*                                                                         *)
(* Tokens are JWTs "header.payload.signature".  The library calls made by  *)
(* auth.go (golang-jwt/jwt v5, crypto/hmac, encoding/base64, google/uuid,  *)
(* x/crypto/bcrypt) are modelled by what they compute:                     *)
(*   - HMAC is an ideal MAC: an injective numbering of (prepared key,      *)
(*     signing string); the key is prepared as crypto/hmac does, by        *)
(*     zero-padding it to the hash block.                                  *)
(*   - the signature segment is unpadded base64url; the model keeps a      *)
(*     16-bit MAC (2 bytes, the same length mod 3 as the 32 bytes of       *)
(*     HS256), hence 3 characters of which the last carries 4 MAC bits     *)
(*     and 2 unused bits.                                                  *)
(*   - bcrypt reads the password through the Blowfish key schedule, which  *)
(*     cycles over password+NUL to fill 72 bytes.                          *)
(***************************************************************************)
EXTENDS Integers, Sequences, FiniteSets, TLC

VARIABLES clock, tok, mk, vres, db, hres, cres, resp,
          fileserverHits, incs, req, platform

vars == <<clock, tok, mk, vres, db, hres, cres, resp,
          fileserverHits, incs, req, platform>>

----------------------------------------------------------------------------
(* Bounds *)

\* clock ticks per second (NumericDate keeps whole seconds)
TicksPerSecond == 2
\* the clock runs from StartClock to MaxClock ticks
MaxClock == 4
\* identities are 0..MaxUser, 0 is uuid.Nil
MaxUser == 1
\* secrets are byte strings of at most MaxSecretLen bytes over {0, 1}
MaxSecretLen == 2
\* short passwords are byte strings of at most MaxPwLen bytes over {0, 1}
MaxPwLen == 2
\* bcrypt salts are drawn from 1..MaxSalt
MaxSalt == 2
\* the requests to the metrics and reset routes that are served, each by
\* its own goroutine
MaxProcs == 3

StartClock == TicksPerSecond

None == [kind |-> "none"]

----------------------------------------------------------------------------
(* Byte strings *)

Bytes == {0, 1}

ByteStrings(n) == UNION {[1..k -> Bytes] : k \in 0..n}

Secrets == ByteStrings(MaxSecretLen)

RECURSIVE Pow2(_)
Pow2(n) == IF n = 0 THEN 1 ELSE 2 * Pow2(n - 1)

----------------------------------------------------------------------------
(* uuid *)

NilUUID == 0

UUIDs == 0..MaxUser

\* uuid.UUID.String(): the canonical 36-character form
UUIDString(id) == <<"std", id>>

\* the subjects a token may carry: canonical UUIDs, the urn:uuid: form that
\* uuid.Parse also accepts, and a string that is no UUID
Subjects == {<<f, i>> : f \in {"std", "urn"}, i \in UUIDs} \cup {<<"bad", 0>>}

\* uuid.Parse
UUIDParse(s) == IF s[1] \in {"std", "urn"} THEN [ok |-> TRUE, id |-> s[2]]
                ELSE [ok |-> FALSE, id |-> NilUUID]

SubNum(s) == (CASE s[1] = "std" -> 0 [] s[1] = "urn" -> 1 [] OTHER -> 2) * (MaxUser + 1) + s[2]

NSub == 3 * (MaxUser + 1)

----------------------------------------------------------------------------
(* time *)

TTLs == {-TicksPerSecond, -1, 0, 1, TicksPerSecond, 2 * TicksPerSecond}

\* jwt.NewNumericDate: truncates to whole seconds
NewNumericDate(t) == t \div TicksPerSecond

NoExp == -1

MaxExp == NewNumericDate(MaxClock + 2 * TicksPerSecond)

Exps == {NoExp} \cup 0..MaxExp

NExp == MaxExp + 2

----------------------------------------------------------------------------
(* HMAC and base64url *)

Algs == {"HS256", "RS256", "none", "XX"}

\* the methods registered with the library; "XX" is not registered
RegisteredAlgs == {"HS256", "HS384", "HS512", "RS256", "none"}

\* the methods of type *jwt.SigningMethodHMAC
HMACFamily == {"HS256", "HS384", "HS512"}

AlgNum(a) == CASE a = "HS256" -> 0 [] a = "RS256" -> 1 [] a = "none" -> 2 [] OTHER -> 3

NAlg == Cardinality(Algs)

\* crypto/hmac key preparation: a key shorter than the block is padded with
\* zero bytes; the padded key is read here as a little-endian number
RECURSIVE HMACKeyNum(_)
HMACKeyNum(k) == IF k = <<>> THEN 0 ELSE k[1] + 2 * HMACKeyNum(Tail(k))

NKey == Pow2(MaxSecretLen)

\* the values of the 2 unused bits of a last character, of which the model
\* keeps two
PadValues == {0, 1}

NPad == Cardinality(PadValues)

\* the payload segment: base64url of the claims JSON.  json = FALSE is a
\* segment that does not decode to a JSON object; pad is the value of the
\* unused low bits of the last character
PayloadSegs == [json : {TRUE}, sub : Subjects, exp : Exps, pad : PadValues]
               \cup {[json |-> FALSE, sub |-> <<"bad", 0>>, exp |-> NoExp, pad |-> 0]}

PayloadNum(p) == IF ~p.json THEN 0
                 ELSE 1 + ((SubNum(p.sub) * NExp + (p.exp + 1)) * NPad + p.pad)

\* the signing string is the text "header.payload"
SigningString(alg, payload) == <<alg, payload>>

\* HMAC over the signing string under a []byte key: an ideal MAC
HMACSum(key, ss) == (PayloadNum(ss[2]) * NAlg + AlgNum(ss[1])) * NKey + HMACKeyNum(key)

\* base64.RawURLEncoding of a 2-byte MAC: three characters, 6 + 6 + 4 bits
EncodeSegment(mac) == <<mac \div 1024, (mac \div 16) % 64, (mac % 16) * 4>>

\* characters 0..63 are the base64url alphabet, BadChar is any other byte
BadChar == 64

SigChars == 0..BadChar

\* Parser.DecodeSegment without WithStrictDecoding: the low 2 bits of the
\* last character are ignored
DecodeSegment(sig) ==
    IF \E i \in 1..3 : sig[i] = BadChar THEN [ok |-> FALSE, mac |-> 0]
    ELSE [ok |-> TRUE, mac |-> sig[1] * 1024 + sig[2] * 16 + sig[3] \div 4]

----------------------------------------------------------------------------
(* tokens on the wire *)

\* the empty string, which MakeJWT returns with an error
EmptyToken == [form |-> "empty", hdr |-> "XX",
               payload |-> [json |-> FALSE, sub |-> <<"bad", 0>>, exp |-> NoExp, pad |-> 0],
               sig |-> <<0, 0, 0>>]

JWT(alg, payload, sig) == [form |-> "jwt", hdr |-> alg, payload |-> payload, sig |-> sig]

\* SigningMethodHMAC.Sign: the key must be a []byte
HMACSign(ss, key) ==
    IF key.type = "bytes" THEN [err |-> "nil", mac |-> HMACSum(key.val, ss)]
    ELSE [err |-> "ErrInvalidKeyType", mac |-> 0]

\* Token.SignedString
SignedString(alg, payload, key) ==
    LET s == HMACSign(SigningString(alg, payload), key)
    IN  IF s.err # "nil" THEN [token |-> EmptyToken, err |-> s.err]
        ELSE [token |-> JWT(alg, payload, EncodeSegment(s.mac)), err |-> "nil"]

Claims(userID, expiresIn, now) ==
    [json |-> TRUE, sub |-> UUIDString(userID),
     exp |-> NewNumericDate(now + expiresIn), pad |-> 0]

\* the fix of MakeJWT: the secret converted to []byte before signing
MakeJWTBytesKey(userID, tokenSecret, expiresIn, now) ==
    SignedString("HS256", Claims(userID, expiresIn, now),
                 [type |-> "bytes", val |-> tokenSecret])

\* auth.MakeJWT: the secret is handed to SignedString as a Go string
MakeJWT(userID, tokenSecret, expiresIn, now) ==
    SignedString("HS256", Claims(userID, expiresIn, now),
                 [type |-> "string", val |-> tokenSecret])

----------------------------------------------------------------------------
(* ValidateJWT *)

\* the key function passed to jwt.ParseWithClaims, without its check of the
\* signing method
KeyFuncAnyMethod(alg, tokenSecret) ==
    [err |-> "nil", key |-> [type |-> "bytes", val |-> tokenSecret]]

\* the key function passed to jwt.ParseWithClaims
KeyFunc(alg, tokenSecret) ==
    IF alg \notin HMACFamily
    THEN [err |-> "unexpected signing method", key |-> [type |-> "nil", val |-> <<>>]]
    ELSE [err |-> "nil", key |-> [type |-> "bytes", val |-> tokenSecret]]

\* Verify without the comparison of the MAC
VerifyNoCompare(alg, ss, mac, key) ==
    CASE alg \in HMACFamily -> IF key.type # "bytes" THEN "ErrInvalidKeyType" ELSE "nil"
      [] alg = "none" -> "NoneSignatureTypeDisallowedError"
      [] OTHER -> "ErrInvalidKeyType"

\* SigningMethod.Verify of the method named by the header
Verify(alg, ss, mac, key) ==
    CASE alg \in HMACFamily ->
            IF key.type # "bytes" THEN "ErrInvalidKeyType"
            ELSE IF mac = HMACSum(key.val, ss) THEN "nil" ELSE "ErrSignatureInvalid"
      [] alg = "none" -> "NoneSignatureTypeDisallowedError"
      [] OTHER -> "ErrInvalidKeyType"

\* Validator.Validate of RegisteredClaims: exp is checked when present
ValidateClaims(payload, now) ==
    IF payload.exp # NoExp /\ ~(now < payload.exp * TicksPerSecond)
    THEN "ErrTokenExpired" ELSE "nil"

\* jwt.ParseWithClaims: [err, keyGiven]; keyGiven tells whether the key
\* function handed out the key
ParseWithClaims(t, tokenSecret, now) ==
    IF t.form # "jwt" \/ ~t.payload.json
    THEN [err |-> "ErrTokenMalformed", keyGiven |-> FALSE]
    ELSE IF t.hdr \notin RegisteredAlgs
    THEN [err |-> "ErrTokenUnverifiable", keyGiven |-> FALSE]
    ELSE LET sig == DecodeSegment(t.sig)
             kf  == KeyFunc(t.hdr, tokenSecret)
         IN  IF ~sig.ok THEN [err |-> "ErrTokenMalformed", keyGiven |-> FALSE]
             ELSE IF kf.err # "nil" THEN [err |-> "ErrTokenUnverifiable", keyGiven |-> FALSE]
             ELSE IF Verify(t.hdr, SigningString(t.hdr, t.payload), sig.mac, kf.key) # "nil"
             THEN [err |-> "ErrTokenSignatureInvalid", keyGiven |-> TRUE]
             ELSE IF ValidateClaims(t.payload, now) # "nil"
             THEN [err |-> "ErrTokenExpired", keyGiven |-> TRUE]
             ELSE [err |-> "nil", keyGiven |-> TRUE]

\* ValidateJWT returning the subject it could parse also when the token
\* was refused
ValidateJWTLeaky(tokenString, tokenSecret, now) ==
    LET p == ParseWithClaims(tokenString, tokenSecret, now)
        u == UUIDParse(tokenString.payload.sub)
    IN  IF p.err # "nil" THEN [id |-> u.id, err |-> p.err, keyGiven |-> p.keyGiven]
        ELSE IF ~u.ok THEN [id |-> NilUUID, err |-> "invalid UUID in subject", keyGiven |-> p.keyGiven]
        ELSE [id |-> u.id, err |-> "nil", keyGiven |-> p.keyGiven]

\* auth.ValidateJWT
ValidateJWT(tokenString, tokenSecret, now) ==
    LET p == ParseWithClaims(tokenString, tokenSecret, now)
        u == UUIDParse(tokenString.payload.sub)
    IN  IF p.err # "nil" THEN [id |-> NilUUID, err |-> p.err, keyGiven |-> p.keyGiven]
        ELSE IF ~u.ok THEN [id |-> NilUUID, err |-> "invalid UUID in subject", keyGiven |-> p.keyGiven]
        ELSE [id |-> u.id, err |-> "nil", keyGiven |-> p.keyGiven]

----------------------------------------------------------------------------
(* bcrypt *)

\* bcrypt.DefaultCost
DefaultCost == 10

\* the longest password bcrypt.GenerateFromPassword accepts
BcryptMaxLen == 72

\* the bytes of key the Blowfish key schedule consumes (18 words of 4)
BlowfishKeyLen == 72

LongPw(n) == [i \in 1..n |-> 1]

\* passwords: the short byte strings (byte 0 is NUL), one of the longest
\* accepted length and one that is one byte longer
Passwords == ByteStrings(MaxPwLen) \cup {LongPw(BcryptMaxLen), LongPw(BcryptMaxLen + 1)}

Salts == 1..MaxSalt

\* the key schedule reads password+NUL cyclically
KeyStream(password) ==
    LET ckey == Append(password, 0)
    IN  [i \in 1..BlowfishKeyLen |-> ckey[((i - 1) % Len(ckey)) + 1]]

\* the bcrypt digest: an ideal hash of what the key schedule read, the salt
\* and the cost
Bcrypt(password, cost, salt) == <<KeyStream(password), salt, cost>>

NoDigest == <<>>

\* the empty string
EmptyHash == [form |-> "empty", cost |-> 0, salt |-> 0, digest |-> NoDigest]

\* strings that are no bcrypt hash: one shorter than a hash, one of the
\* right length that does not start with '$'
MalformedHashes == {[form |-> "short", cost |-> 0, salt |-> 0, digest |-> NoDigest],
                    [form |-> "prefix", cost |-> 0, salt |-> 0, digest |-> NoDigest]}

\* auth.HashPassword, the salt being what the random source gave
HashPassword(password, salt) ==
    IF Len(password) > BcryptMaxLen
    THEN [hash |-> EmptyHash, err |-> "error creating password hash"]
    ELSE [hash |-> [form |-> "bcrypt", cost |-> DefaultCost, salt |-> salt,
                    digest |-> Bcrypt(password, DefaultCost, salt)],
          err |-> "nil"]

\* bcrypt.CompareHashAndPassword
CompareHashAndPassword(hash, password) ==
    CASE hash.form \in {"empty", "short"} -> "ErrHashTooShort"
      [] hash.form = "prefix" -> "InvalidHashPrefixError"
      [] OTHER -> IF hash.digest = Bcrypt(password, hash.cost, hash.salt)
                  THEN "nil" ELSE "ErrMismatchedHashAndPassword"

\* CheckPassword accepting whatever the hash
CheckPasswordAlways(hash, password) == "nil"

\* auth.CheckPassword
CheckPassword(hash, password) ==
    IF CompareHashAndPassword(hash, password) # "nil" THEN "invalid password" ELSE "nil"

----------------------------------------------------------------------------
(* the user store *)

Emails == {"a@x", "b@x"}

\* the identity the store gives the user created for an email
NewID(email) == IF email = "a@x" THEN 1 ELSE 2

----------------------------------------------------------------------------
(* The token service as a state machine: a clock, the token a client      *)
(* holds with the record of how it was made (mk), and the last call of    *)
(* ValidateJWT (vres).                                                     *)

\* payload segments as an encoder writes them: unused bits zero
CanonicalPayloads == {p \in PayloadSegs : p.pad = 0}

TokenInit ==
    /\ clock = StartClock
    /\ tok = EmptyToken
    /\ mk = None
    /\ vres = None

StoreInit ==
    /\ db = [e \in Emails |-> None]
    /\ resp = None

PasswordInit ==
    /\ hres = None
    /\ cres = None

Procs == 1..MaxProcs

\* a count of increments: those made before the first state of a run and
\* those made since; the count is their sum
Count(before, n) == [before |-> before, n |-> n]

Idle == [kind |-> "idle", method |-> "", pc |-> "idle", status |-> 0, body |-> 0,
         seen |-> Count(0, 0)]

\* a server that has just started in a dev environment and has no request
AdminIdle ==
    /\ fileserverHits = 0
    /\ incs = Count(0, 0)
    /\ req = [p \in Procs |-> Idle]
    /\ platform = "dev"

\* time passes between two calls
Tick ==
    /\ vres = None
    /\ clock < MaxClock
    /\ clock' = clock + 1
    /\ UNCHANGED <<fileserverHits, incs, req, platform, tok, mk, vres, db, hres, cres, resp>>

\* a call of MakeJWT by a client that holds no token; the caller keeps what
\* it returns
Issue ==
    \E id \in UUIDs, s \in Secrets, ttl \in TTLs :
        LET r == MakeJWT(id, s, ttl, clock)
        IN  /\ vres = None
            /\ tok = EmptyToken
            /\ mk' = [kind |-> "MakeJWT", id |-> id, secret |-> s, ttl |-> ttl,
                      at |-> clock, token |-> r.token, err |-> r.err]
            /\ tok' = r.token
            /\ UNCHANGED <<fileserverHits, incs, req, platform, clock, vres, db, hres, cres, resp>>

\* a client that holds no token and has asked for none gets one that a
\* holder of the secret s signed (HMAC under the bytes of s), whatever
\* algorithm its header declares
Present ==
    \E alg \in Algs, p \in CanonicalPayloads, s \in Secrets :
        LET r == SignedString(alg, p, [type |-> "bytes", val |-> s])
        IN  /\ vres = None
            /\ tok = EmptyToken
            /\ mk = None
            /\ mk' = [kind |-> "signer", id |-> NilUUID, secret |-> s, ttl |-> 0,
                      at |-> 0, token |-> r.token, err |-> r.err]
            /\ tok' = r.token
            /\ UNCHANGED <<fileserverHits, incs, req, platform, clock, vres, db, hres, cres, resp>>

Result(kind, t, s, r) ==
    [kind |-> kind, tok |-> t, secret |-> s, at |-> clock,
     id |-> r.id, err |-> r.err, keyGiven |-> r.keyGiven]

\* a call of ValidateJWT on the held token
Validate ==
    \E s \in Secrets :
        /\ vres = None
        /\ vres' = Result("validate", tok, s, ValidateJWT(tok, s, clock))
        /\ UNCHANGED <<fileserverHits, incs, req, platform, clock, tok, mk, db, hres, cres, resp>>

\* one byte of the signature segment of the token that ValidateJWT has just
\* accepted is changed, and the result is validated under the same secret
ValidateMutatedSignature ==
    \E i \in 1..3, c \in SigChars :
        LET m == [tok EXCEPT !.sig[i] = c]
        IN  /\ vres # None
            /\ vres.kind = "validate"
            /\ vres.err = "nil"
            /\ c # tok.sig[i]
            /\ vres' = Result("mutated", m, vres.secret, ValidateJWT(m, vres.secret, clock))
            /\ UNCHANGED <<fileserverHits, incs, req, platform, clock, tok, mk, db, hres, cres, resp>>

\* one byte of the payload segment of the token that ValidateJWT has just
\* accepted is changed: the segment becomes some other text, which decodes
\* to other claims, to the same claims or to nothing
ValidateMutatedPayload ==
    \E p \in PayloadSegs :
        LET m == [tok EXCEPT !.payload = p]
        IN  /\ vres # None
            /\ vres.kind = "validate"
            /\ vres.err = "nil"
            /\ p # tok.payload
            /\ vres' = Result("mutated", m, vres.secret, ValidateJWT(m, vres.secret, clock))
            /\ UNCHANGED <<fileserverHits, incs, req, platform, clock, tok, mk, db, hres, cres, resp>>

\* the caller is done with the result
EndRequest ==
    /\ vres # None
    /\ vres' = None
    /\ UNCHANGED <<fileserverHits, incs, req, platform, clock, tok, mk, db, hres, cres, resp>>

----------------------------------------------------------------------------
(* The password hasher: the last call of HashPassword (hres) and the last  *)
(* call of CheckPassword (cres).                                           *)

\* a call of HashPassword
HashPw ==
    \E p \in Passwords, salt \in Salts :
        LET r == HashPassword(p, salt)
        IN  /\ hres' = [kind |-> "hash", password |-> p, salt |-> salt,
                        hash |-> r.hash, err |-> r.err]
            /\ cres' = None
            /\ UNCHANGED <<fileserverHits, incs, req, platform, clock, tok, mk, vres, db, resp>>

\* a call of CheckPassword on the hash HashPassword returned
CheckPw ==
    \E p \in Passwords :
        /\ hres # None
        /\ hres.err = "nil"
        /\ cres' = [kind |-> "check", hash |-> hres.hash, password |-> p,
                    err |-> CheckPassword(hres.hash, p)]
        /\ UNCHANGED <<fileserverHits, incs, req, platform, clock, tok, mk, vres, db, hres, resp>>

\* a call of CheckPassword on a string that is no bcrypt hash
CheckPwMalformed ==
    \E h \in MalformedHashes, p \in Passwords :
        /\ cres' = [kind |-> "check", hash |-> h, password |-> p,
                    err |-> CheckPassword(h, p)]
        /\ UNCHANGED <<fileserverHits, incs, req, platform, clock, tok, mk, vres, db, hres, resp>>

----------------------------------------------------------------------------
(* The handlers of main.go over the user store (db) and the last response  *)
(* written (resp).                                                         *)

\* the passwords sent to the handlers
RequestPasswords == {<<>>, <<0>>, <<1>>, LongPw(BcryptMaxLen + 1)}

NoBody == [id |-> NilUUID, email |-> "", hash |-> EmptyHash]

Response(handler, status, body) == [kind |-> handler, status |-> status, body |-> body]

\* Queries.GetHashedPasswordByUser
GetHashedPasswordByUser(email, fails) ==
    IF fails \/ db[email] = None THEN [hash |-> EmptyHash, err |-> "error"]
    ELSE [hash |-> db[email].hash, err |-> "nil"]

\* Queries.GetUserByEmail
GetUserByEmail(email, fails) ==
    IF fails \/ db[email] = None THEN [user |-> NoBody, err |-> "error"]
    ELSE [user |-> db[email], err |-> "nil"]

\* POST /api/users
addUserHandler ==
    \E decodes \in BOOLEAN, email \in Emails, p \in RequestPasswords, salt \in Salts,
       storeFails \in BOOLEAN :
        LET h == HashPassword(p, salt)
            row == [id |-> NewID(email), email |-> email, hash |-> h.hash]
        IN  /\ IF ~decodes \/ h.err # "nil"
               THEN /\ resp' = Response("addUser", 500, NoBody)
                    /\ db' = db
               ELSE IF storeFails \/ db[email] # None
               THEN /\ resp' = Response("addUser", 500, NoBody)
                    /\ db' = db
               ELSE /\ resp' = Response("addUser", 201, row)
                    /\ db' = [db EXCEPT ![email] = row]
            /\ UNCHANGED <<fileserverHits, incs, req, platform, clock, tok, mk, vres, hres, cres>>

\* a row whose stored hash is the empty string or no bcrypt hash, written
\* to the store by other means than addUserHandler
ForeignRow ==
    \E email \in Emails, h \in MalformedHashes \cup {EmptyHash} :
        /\ db[email] = None
        /\ db' = [db EXCEPT ![email] = [id |-> NewID(email), email |-> email, hash |-> h]]
        /\ UNCHANGED <<fileserverHits, incs, req, platform, clock, tok, mk, vres, hres, cres, resp>>

\* the response of loginHandler, with the request it answers, what
\* GetHashedPasswordByUser returned and whether GetUserByEmail was called
LoginResponse(status, body, decodes, email, p, hashed, getUser) ==
    [kind |-> "login", status |-> status, body |-> body, decodes |-> decodes,
     email |-> email, password |-> p, hashed |-> hashed, getUser |-> getUser]

NotFetched == [hash |-> EmptyHash, err |-> "not called"]

\* POST /api/login
loginHandler ==
    \E decodes \in BOOLEAN, email \in Emails, p \in RequestPasswords,
       hashFails \in BOOLEAN, userFails \in BOOLEAN :
        LET hashed == GetHashedPasswordByUser(email, hashFails)
            user   == GetUserByEmail(email, userFails)
        IN  /\ resp' =
                 IF ~decodes
                 THEN LoginResponse(500, NoBody, decodes, email, p, NotFetched, FALSE)
                 ELSE IF hashed.err # "nil"
                 THEN LoginResponse(500, NoBody, decodes, email, p, hashed, FALSE)
                 ELSE IF hashed.hash = EmptyHash
                 THEN LoginResponse(404, NoBody, decodes, email, p, hashed, FALSE)
                 ELSE IF CheckPassword(hashed.hash, p) # "nil"
                 THEN LoginResponse(401, NoBody, decodes, email, p, hashed, FALSE)
                 ELSE IF user.err # "nil"
                 THEN LoginResponse(500, NoBody, decodes, email, p, hashed, TRUE)
                 ELSE LoginResponse(200,
                          [id |-> user.user.id, email |-> user.user.email, hash |-> EmptyHash],
                          decodes, email, p, hashed, TRUE)
            /\ UNCHANGED <<fileserverHits, incs, req, platform, clock, tok, mk, vres, db, hres, cres>>

----------------------------------------------------------------------------
(* The hit counter and the admin routes.  Every request runs in its own    *)
(* goroutine (req); a step is one access to the counter or to the store.   *)
(* incs counts the increments made since the last Store(0), or since the   *)
(* start.                                                                  *)

\* the largest value of an int32
MaxInt32 == 2147483647

\* the smallest value of an int32
MinInt32 == -MaxInt32 - 1

\* the values of PLATFORM in the environment
Platforms == {"dev", "prod", ""}

Methods == {"GET", "POST"}

EmptyDB == [e \in Emails |-> None]

\* a store with a user created by addUserHandler
OneUserDB ==
    [EmptyDB EXCEPT !["a@x"] = [id |-> NewID("a@x"), email |-> "a@x",
                                hash |-> HashPassword(<<1>>, 1).hash]]

\* the server has run for a while: no hit or nearly 2^31 of them, and no
\* user or one
AdminInit ==
    /\ platform \in Platforms
    /\ \E h \in {0, MaxInt32 - 1} : fileserverHits = h /\ incs = Count(h, 0)
    /\ db \in {EmptyDB, OneUserDB}
    /\ req = [p \in Procs |-> Idle]
    /\ resp = None

\* an Add whose update is lost
Int32AddLost(v, d) == v

\* atomic.Int32.Add: two's complement addition
Int32Add(v, d) ==
    IF d >= 0 /\ v > MaxInt32 - d THEN MinInt32 + (d - 1 - (MaxInt32 - v))
    ELSE IF d < 0 /\ v < MinInt32 - d THEN MaxInt32 + (d + 1 + (v - MinInt32))
    ELSE v + d

\* the reset is allowed whatever PLATFORM
IsDevAlways(env) == TRUE

\* os.Getenv("PLATFORM") == "dev"
IsDev(env) == env = "dev"

tokenVars == <<clock, tok, mk, vres, hres, cres, resp>>

\* a request arrives for /app/, /admin/metrics or /admin/reset
Accept(p) ==
    \E kind \in {"app", "metrics", "reset"}, method \in Methods :
        /\ req[p].kind = "idle"
        /\ req' = [req EXCEPT ![p] = [Idle EXCEPT !.kind = kind, !.method = method,
                                                  !.pc = "start"]]
        /\ UNCHANGED <<tokenVars, db, fileserverHits, incs, platform>>

\* middlewareMetricsInc: c.fileserverHits.Add(1)
AppInc(p) ==
    /\ req[p].kind = "app"
    /\ req[p].pc = "start"
    /\ fileserverHits' = Int32Add(fileserverHits, 1)
    /\ incs' = [incs EXCEPT !.n = @ + 1]
    /\ req' = [req EXCEPT ![p].pc = "serve"]
    /\ UNCHANGED <<tokenVars, db, platform>>

\* middlewareMetricsInc: next.ServeHTTP(w, r), the file server
AppServe(p) ==
    /\ req[p].kind = "app"
    /\ req[p].pc = "serve"
    /\ req' = [req EXCEPT ![p].pc = "done", ![p].status = 200]
    /\ UNCHANGED <<tokenVars, db, fileserverHits, incs, platform>>

\* metricsHandler; seen is the number of increments since the last reset
\* at the instant of the Load
metricsHandler(p) ==
    /\ req[p].kind = "metrics"
    /\ req[p].pc = "start"
    /\ req' = IF req[p].method # "GET"
              THEN [req EXCEPT ![p].pc = "done", ![p].status = 405]
              ELSE [req EXCEPT ![p].pc = "done", ![p].status = 200,
                               ![p].body = fileserverHits, ![p].seen = incs]
    /\ UNCHANGED <<tokenVars, db, fileserverHits, incs, platform>>

\* resetHandler up to c.fileserverHits.Store(0)
resetHandler(p) ==
    /\ req[p].kind = "reset"
    /\ req[p].pc = "start"
    /\ IF req[p].method # "POST"
       THEN /\ req' = [req EXCEPT ![p].pc = "done", ![p].status = 405]
            /\ UNCHANGED <<fileserverHits, incs>>
       ELSE IF ~IsDev(platform)
       THEN /\ req' = [req EXCEPT ![p].pc = "done", ![p].status = 403]
            /\ UNCHANGED <<fileserverHits, incs>>
       ELSE /\ fileserverHits' = 0
            /\ incs' = Count(0, 0)
            /\ req' = [req EXCEPT ![p].pc = "resetUsers"]
    /\ UNCHANGED <<tokenVars, db, platform>>

\* resetHandler from c.database.ResetUsers on: the error of ResetUsers is
\* not looked at; body = 1 tells that the store failed
resetUsers(p) ==
    \E storeFails \in BOOLEAN :
        /\ req[p].kind = "reset"
        /\ req[p].pc = "resetUsers"
        /\ db' = IF storeFails THEN db ELSE EmptyDB
        /\ req' = [req EXCEPT ![p].pc = "done", ![p].status = 200,
                              ![p].body = IF storeFails THEN 1 ELSE 0]
        /\ UNCHANGED <<tokenVars, fileserverHits, incs, platform>>

----------------------------------------------------------------------------
(* Specifications *)

Init == TokenInit /\ StoreInit /\ PasswordInit /\ AdminIdle

\* the token service
Next ==
    \/ Tick
    \/ Issue
    \/ Present
    \/ Validate
    \/ ValidateMutatedSignature
    \/ ValidateMutatedPayload
    \/ EndRequest

Spec == Init /\ [][Next]_vars

\* the password hasher
NextPassword ==
    \/ HashPw
    \/ CheckPw
    \/ CheckPwMalformed

SpecPassword == Init /\ [][NextPassword]_vars

\* the handlers
NextLogin ==
    \/ addUserHandler
    \/ ForeignRow
    \/ loginHandler

SpecLogin == Init /\ [][NextLogin]_vars

\* the hit counter and the admin routes
NextAdmin ==
    \E p \in Procs :
        \/ Accept(p)
        \/ AppInc(p)
        \/ AppServe(p)
        \/ metricsHandler(p)
        \/ resetHandler(p)
        \/ resetUsers(p)

InitAdmin == TokenInit /\ PasswordInit /\ AdminInit

SpecAdmin == InitAdmin /\ [][NextAdmin]_vars

----------------------------------------------------------------------------
(* Properties *)

\* the instant, in ticks, at which the claims built by the MakeJWT call
\* recorded in mk expire
IssuedExpiry == NewNumericDate(mk.at + mk.ttl) * TicksPerSecond

\* C1: a token MakeJWT makes for id under a non-empty secret with a positive
\* ttl comes without error, and ValidateJWT under the same secret, before
\* the expiry, returns id and no error
C1_RoundTrip ==
    (mk.kind = "MakeJWT" /\ mk.secret # <<>> /\ mk.ttl > 0) =>
        /\ mk.err = "nil"
        /\ (vres.kind = "validate" /\ vres.secret = mk.secret /\ vres.at < IssuedExpiry)
              => (vres.err = "nil" /\ vres.id = mk.id)

\* C2: a login answered 200 has minted, with MakeJWT, a token for the
\* identity of the user it answers with
C2_LoginMintsToken ==
    (resp.kind = "login" /\ resp.status = 200) =>
        (mk.kind = "MakeJWT" /\ mk.err = "nil" /\ mk.id = resp.body.id)

\* what CheckPassword returns when a well-formed hash does not match
MismatchOutcome == CheckPassword(HashPassword(<<1>>, 1).hash, <<>>)

\* C3: CheckPassword on a string that is no bcrypt hash returns neither a
\* match nor what it returns for a password that does not match
C3_MalformedHashDistinguished ==
    (cres.kind = "check" /\ cres.hash \in MalformedHashes) =>
        (cres.err # "nil" /\ cres.err # MismatchOutcome)

\* C4: MakeJWT with the empty secret returns an error and the empty string,
\* whatever the identity and the ttl
C4_EmptySecretFails ==
    (mk.kind = "MakeJWT" /\ mk.secret = <<>>) =>
        (mk.err # "nil" /\ mk.token = EmptyToken /\ tok = EmptyToken)

C4_Witness ==
    /\ mk.kind = "MakeJWT"
    /\ mk.secret = <<>>
    /\ mk.id # NilUUID
    /\ mk.ttl > 0
    /\ mk.err # "nil"

\* C5 as stated: a token signed with the secret s is refused by ValidateJWT
\* under every secret s2 # s
C5_OtherSecretRejected ==
    (vres.kind = "validate" /\ mk.kind = "signer" /\ vres.secret # mk.secret) =>
        vres.err # "nil"

RECURSIVE StripZeros(_)
StripZeros(s) ==
    IF s = <<>> THEN s
    ELSE IF s[Len(s)] = 0 THEN StripZeros(SubSeq(s, 1, Len(s) - 1))
    ELSE s

\* C5 amended: a token signed with the secret s is refused by ValidateJWT
\* under every secret s2 that differs from s by more than trailing zero bytes
C5_OtherKeyRejected ==
    (vres.kind = "validate" /\ mk.kind = "signer"
        /\ StripZeros(vres.secret) # StripZeros(mk.secret)) =>
        vres.err # "nil"

\* an unexpired HS256 token that its own secret validates, refused for its
\* signature under another secret
C5_Witness ==
    /\ vres.kind = "validate"
    /\ mk.kind = "signer"
    /\ tok.hdr = "HS256"
    /\ StripZeros(vres.secret) # StripZeros(mk.secret)
    /\ ValidateJWT(tok, mk.secret, clock).err = "nil"
    /\ vres.err = "ErrTokenSignatureInvalid"

\* C6: ValidateJWT succeeds only on a token whose expires-at is later than
\* now; a token MakeJWT made with a negative ttl is refused as expired; and
\* a token refused as expired is refused at every later instant
C6_ExpiryOneWay ==
    /\ (vres # None /\ vres.err = "nil") =>
          (vres.tok.payload.exp # NoExp /\ vres.at < vres.tok.payload.exp * TicksPerSecond)
    /\ (vres.kind = "validate" /\ mk.kind = "MakeJWT" /\ mk.ttl < 0) =>
          vres.err = "ErrTokenExpired"
    /\ (vres # None /\ vres.err = "ErrTokenExpired") =>
          \A t \in vres.at..MaxClock : ValidateJWT(vres.tok, vres.secret, t).err # "nil"

\* C7: a token obtained by changing one byte of the payload or of the
\* signature of a token ValidateJWT accepts is refused under the same secret
C7_MutationRejected ==
    vres.kind = "mutated" => vres.err # "nil"

\* C8: a token whose header names a method outside the HMAC family is
\* refused, yields the nil identity, and the key function hands out no key
C8_NonHMACRejected ==
    (vres # None /\ vres.tok.form = "jwt" /\ vres.tok.hdr \notin HMACFamily) =>
        (vres.err # "nil" /\ vres.id = NilUUID /\ ~vres.keyGiven)

\* an RS256-labelled token with good claims, carrying the HMAC of its
\* signing string under the very secret it is validated with
C8_Witness ==
    /\ vres.kind = "validate"
    /\ tok.hdr = "RS256"
    /\ tok.payload.json
    /\ UUIDParse(tok.payload.sub).id # NilUUID
    /\ DecodeSegment(tok.sig).mac = HMACSum(vres.secret, SigningString(tok.hdr, tok.payload))
    /\ vres.err = "ErrTokenUnverifiable"

\* C9: whenever ValidateJWT returns an error the identity it returns is
\* uuid.Nil, and an identity other than uuid.Nil comes with no error
C9_FailureReturnsNil ==
    vres # None =>
        /\ vres.err # "nil" => vres.id = NilUUID
        /\ vres.id # NilUUID => vres.err = "nil"

\* a well-signed token whose subject parses to a non-nil identity, refused
\* because it has expired
C9_Witness ==
    /\ vres.kind = "validate"
    /\ vres.err = "ErrTokenExpired"
    /\ UUIDParse(vres.tok.payload.sub).ok
    /\ UUIDParse(vres.tok.payload.sub).id # NilUUID
    /\ vres.id = NilUUID

\* the check in cres is of a hash HashPassword made (hres) against a
\* password HashPassword accepts
CheckOfHashed ==
    /\ cres.kind = "check"
    /\ hres.kind = "hash"
    /\ hres.err = "nil"
    /\ cres.hash = hres.hash
    /\ HashPassword(cres.password, hres.salt).err = "nil"

\* C10 as stated: CheckPassword(HashPassword(p1), p2) is a match exactly
\* when p1 = p2, for all passwords HashPassword accepts
C10_MatchIffEqual ==
    CheckOfHashed => (cres.err = "nil" <=> cres.password = hres.password)

NoNUL(p) == \A i \in DOMAIN p : p[i] # 0

\* C10 amended: for passwords of at most 72 bytes without a NUL byte,
\* CheckPassword(HashPassword(p1), p2) is a match exactly when p1 = p2; and
\* the hashes HashPassword makes of one password under different salts
\* differ and all match that password
C10_MatchIffEqualNoNUL ==
    /\ (CheckOfHashed /\ NoNUL(hres.password) /\ NoNUL(cres.password)) =>
          (cres.err = "nil" <=> cres.password = hres.password)
    /\ (hres.kind = "hash" /\ hres.err = "nil") =>
          \A salt \in Salts \ {hres.salt} :
              LET h == HashPassword(hres.password, salt).hash
              IN  h # hres.hash /\ CheckPassword(h, hres.password) = "nil"

\* a password without NUL checked against the hash of a different one
C10_Witness ==
    /\ CheckOfHashed
    /\ NoNUL(hres.password)
    /\ NoNUL(cres.password)
    /\ Len(hres.password) > 0
    /\ cres.password # hres.password
    /\ cres.err # "nil"

\* the stored hash was fetched, is not empty, and bcrypt finds that the
\* submitted password matches it
LoginAccepted ==
    /\ resp.decodes
    /\ resp.hashed.err = "nil"
    /\ resp.hashed.hash # EmptyHash
    /\ CompareHashAndPassword(resp.hashed.hash, resp.password) = "nil"

\* the status of a login by what it found, and 200 only for the record of
\* the user whose stored hash matched the password
LoginStatusGate ==
    /\ resp.status \in {200, 401, 404, 500}
    /\ resp.status = 200 =>
          /\ LoginAccepted
          /\ db[resp.email] # None
          /\ resp.body.id = db[resp.email].id
          /\ resp.body.email = resp.email
    /\ (resp.decodes /\ resp.hashed.err = "nil" /\ resp.hashed.hash # EmptyHash /\ ~LoginAccepted)
          => resp.status = 401
    /\ (resp.decodes /\ resp.hashed.err = "nil" /\ resp.hashed.hash = EmptyHash)
          => resp.status = 404
    /\ (~resp.decodes \/ resp.hashed.err # "nil") => resp.status = 500

\* C11 as stated: a login answers 200 only after a non-empty stored hash
\* matched the password, 401 on a rejected password, 404 on an empty hash,
\* 500 on a store or decode error, and whenever it does not answer 200 it
\* writes no user data and has not called GetUserByEmail
C11_LoginGate ==
    resp.kind = "login" =>
        /\ LoginStatusGate
        /\ resp.status # 200 => (resp.body = NoBody /\ ~resp.getUser)

\* C11 amended: as C11, except that GetUserByEmail has been called when the
\* 500 answers its own failure, after the password was accepted; it is never
\* called on 401, 404 or a 500 for a decode or hash-fetch error
C11_LoginGateGetUserAfterAccept ==
    resp.kind = "login" =>
        /\ LoginStatusGate
        /\ resp.status # 200 => resp.body = NoBody
        /\ resp.getUser => (LoginAccepted /\ resp.status \in {200, 500})
        /\ (resp.status \in {401, 404} \/ ~LoginAccepted) => ~resp.getUser

\* the password was accepted and GetUserByEmail failed: 500 and no user data
C11_Witness ==
    /\ resp.kind = "login"
    /\ LoginAccepted
    /\ resp.getUser
    /\ resp.status = 500
    /\ resp.body = NoBody

\* the goroutine p of a reset request takes this step
ResetStep(p) == req[p].kind = "reset" /\ req'[p] # req[p]

\* C12: a reset request that is not a POST answers 405, a POST while
\* PLATFORM is not "dev" answers 403, and neither changes the hit counter
\* or the stored users; a POST with PLATFORM = "dev" sets the counter to 0,
\* resets the users and answers 200; no other step empties the store or
\* brings the counter back to 0
C12_ResetGated ==
    [][ /\ \A p \in Procs : ResetStep(p) =>
             IF req[p].method = "POST" /\ platform = "dev"
             THEN /\ req[p].pc = "start" => fileserverHits' = 0
                  /\ req[p].pc = "resetUsers" =>
                        /\ req'[p].status = 200
                        /\ (db' = EmptyDB \/ req'[p].body = 1)
             ELSE /\ fileserverHits' = fileserverHits
                  /\ db' = db
                  /\ req'[p].pc = "done"
                  /\ req'[p].status = IF req[p].method # "POST" THEN 405 ELSE 403
        /\ (db' # db \/ (fileserverHits' = 0 /\ fileserverHits # 0)) =>
              \E p \in Procs : ResetStep(p) /\ req[p].method = "POST" /\ platform = "dev"
      ]_vars

\* a POST to /admin/reset was refused with 403 while the counter had counted
\* hits and the store had a user
C12_Witness ==
    /\ platform # "dev"
    /\ fileserverHits \in 1..MaxProcs
    /\ db # EmptyDB
    /\ \E p \in Procs : /\ req[p].kind = "reset"
                        /\ req[p].method = "POST"
                        /\ req[p].pc = "done"
                        /\ req[p].status = 403

\* the count c is at most the largest int32
InInt32(c) == c.n <= MaxInt32 - c.before

\* v is the count c
IsCount(v, c) == InInt32(c) /\ v = c.before + c.n

\* C13 as stated: fileserverHits is the number of increments made since the
\* last accepted reset, or since the start, and so is what metricsHandler
\* read at the instant it read it
C13_CounterExact ==
    /\ IsCount(fileserverHits, incs)
    /\ \A p \in Procs :
          (req[p].kind = "metrics" /\ req[p].status = 200) => IsCount(req[p].body, req[p].seen)

\* C13 amended: the same as long as that number is at most 2^31 - 1
C13_CounterExactInInt32 ==
    /\ InInt32(incs) => fileserverHits = incs.before + incs.n
    /\ \A p \in Procs :
          (req[p].kind = "metrics" /\ req[p].status = 200 /\ InInt32(req[p].seen))
              => req[p].body = req[p].seen.before + req[p].seen.n

\* two /app/ requests in flight with a reset in flight: one increment came
\* before the Store(0) and one after it
C13_Witness ==
    /\ \E p, q \in Procs : /\ p # q
                           /\ req[p].kind = "app" /\ req[p].pc = "serve"
                           /\ req[q].kind = "app" /\ req[q].pc = "serve"
    /\ \E r \in Procs : req[r].kind = "reset" /\ req[r].pc = "resetUsers"
    /\ incs = Count(0, 1)
    /\ fileserverHits = 1

====
